---------------------------- MODULE Spec2Model ----------------------------
(***************************************************************************)
(* Miller-Rabin primality test of src/Miller_Rabin_karp.cpp: mulmod,       *)
(* modexp, check_composite and isPrime as a state machine.                 *)
(*                                                                         *)
(* The program computes on long long (64 bit, signed) and __int128 values. *)
(* The model keeps them as exact integers in sign-magnitude form, the      *)
(* magnitude a little-endian sequence of limbs in base 10^4 without        *)
(* leading zero limbs, so that values up to 2^127 and the wrap-around of   *)
(* the two integer widths can be computed.                                 *)
(***************************************************************************)
EXTENDS Integers, Sequences, FiniteSets, TLC

(***************************************************************************)
(* Natural numbers as limb sequences.                                      *)
(***************************************************************************)
Base == 10^4

RECURSIVE NNorm(_)
NNorm(x) ==
    IF Len(x) = 0 THEN x
    ELSE IF x[Len(x)] = 0 THEN NNorm(SubSeq(x, 1, Len(x) - 1)) ELSE x

RECURSIVE NFromInt(_)
NFromInt(k) == IF k = 0 THEN << >> ELSE <<k % Base>> \o NFromInt(k \div Base)

RECURSIVE NToInt(_)
NToInt(x) == IF Len(x) = 0 THEN 0 ELSE x[1] + Base * NToInt(Tail(x))

NLimb(x, i) == IF i <= Len(x) THEN x[i] ELSE 0

\* -1, 0, 1 as a < b, a = b, a > b; i is the limb compared, from the top.
RECURSIVE NCmpAt(_, _, _)
NCmpAt(a, b, i) ==
    IF i = 0 THEN 0
    ELSE IF a[i] < b[i] THEN -1
    ELSE IF a[i] > b[i] THEN 1
    ELSE NCmpAt(a, b, i - 1)

NCmp(a, b) ==
    IF Len(a) < Len(b) THEN -1
    ELSE IF Len(a) > Len(b) THEN 1
    ELSE NCmpAt(a, b, Len(a))

RECURSIVE NAddAt(_, _, _, _)
NAddAt(a, b, i, c) ==
    IF i > Len(a) /\ i > Len(b)
    THEN (IF c = 0 THEN << >> ELSE <<c>>)
    ELSE LET t == NLimb(a, i) + NLimb(b, i) + c
         IN  <<t % Base>> \o NAddAt(a, b, i + 1, t \div Base)

NAdd(a, b) == NAddAt(a, b, 1, 0)

\* a - b for a >= b; c is the borrow.
RECURSIVE NSubAt(_, _, _, _)
NSubAt(a, b, i, c) ==
    IF i > Len(a) THEN << >>
    ELSE LET t == a[i] - NLimb(b, i) - c
         IN  IF t < 0 THEN <<t + Base>> \o NSubAt(a, b, i + 1, 1)
                      ELSE <<t>> \o NSubAt(a, b, i + 1, 0)

NSub(a, b) == NNorm(NSubAt(a, b, 1, 0))

\* a * k for a limb-sized k (0 <= k <= Base).
RECURSIVE NMulSmallAt(_, _, _, _)
NMulSmallAt(a, k, i, c) ==
    IF i > Len(a)
    THEN (IF c = 0 THEN << >> ELSE <<c>>)
    ELSE LET t == a[i] * k + c
         IN  <<t % Base>> \o NMulSmallAt(a, k, i + 1, t \div Base)

NMulSmall(a, k) == IF k = 0 THEN << >> ELSE NMulSmallAt(a, k, 1, 0)

NShift(x) == IF Len(x) = 0 THEN x ELSE <<0>> \o x

RECURSIVE NMul(_, _)
NMul(a, b) ==
    IF Len(b) = 0 \/ Len(a) = 0 THEN << >>
    ELSE NAdd(NMulSmall(a, b[1]), NShift(NMul(a, Tail(b))))

\* The largest q in lo .. hi-1 with q * m <= v, given lo * m <= v < hi * m.
RECURSIVE NQuotDigit(_, _, _, _)
NQuotDigit(v, m, lo, hi) ==
    IF hi - lo <= 1 THEN lo
    ELSE LET mid == (lo + hi) \div 2
         IN  IF NCmp(NMulSmall(m, mid), v) <= 0
             THEN NQuotDigit(v, m, mid, hi)
             ELSE NQuotDigit(v, m, lo, mid)

\* a mod m (m > 0) by long division; i is the limb of a brought down, r the
\* remainder of the limbs above it.
RECURSIVE NModAt(_, _, _, _)
NModAt(a, m, i, r) ==
    IF i = 0 THEN r
    ELSE LET v == NNorm(<<a[i]>> \o r)
         IN  IF NCmp(v, m) < 0 THEN NModAt(a, m, i - 1, v)
             ELSE NModAt(a, m, i - 1,
                         NSub(v, NMulSmall(m, NQuotDigit(v, m, 1, Base))))

NMod(a, m) == IF NCmp(a, m) < 0 THEN a ELSE NModAt(a, m, Len(a), << >>)

NIsOdd(x) == Len(x) > 0 /\ x[1] % 2 = 1

NHalf(x) ==
    NNorm([i \in 1..Len(x) |-> (x[i] + Base * (NLimb(x, i + 1) % 2)) \div 2])

\* 2^k by squaring, so that the recursion is only as deep as k has bits.
RECURSIVE NPow2(_)
NPow2(k) ==
    IF k = 0 THEN <<1>>
    ELSE IF k % 2 = 1 THEN NMulSmall(NPow2(k - 1), 2)
    ELSE LET h == NPow2(k \div 2) IN NMul(h, h)

(***************************************************************************)
(* Signed integers, and the two integer types of the program.              *)
(***************************************************************************)
ZMk(neg, mag) == [neg |-> neg /\ Len(mag) > 0, mag |-> mag]

Z(k) == IF k < 0 THEN ZMk(TRUE, NFromInt(-k)) ELSE ZMk(FALSE, NFromInt(k))

ZToInt(z) == IF z.neg THEN -NToInt(z.mag) ELSE NToInt(z.mag)

ZNeg(z) == ZMk(~z.neg, z.mag)

ZAdd(a, b) ==
    IF a.neg = b.neg THEN ZMk(a.neg, NAdd(a.mag, b.mag))
    ELSE IF NCmp(a.mag, b.mag) >= 0 THEN ZMk(a.neg, NSub(a.mag, b.mag))
    ELSE ZMk(b.neg, NSub(b.mag, a.mag))

ZSub(a, b) == ZAdd(a, ZNeg(b))

ZMul(a, b) == ZMk(a.neg # b.neg, NMul(a.mag, b.mag))

\* a < b
ZLt(a, b) ==
    IF a.neg /\ ~b.neg THEN TRUE
    ELSE IF ~a.neg /\ b.neg THEN FALSE
    ELSE IF a.neg THEN NCmp(a.mag, b.mag) > 0
    ELSE NCmp(a.mag, b.mag) < 0

ZLe(a, b) == ~ZLt(b, a)

\* The % of C++: the quotient is truncated, the remainder has the sign of a.
ZRem(a, m) == ZMk(a.neg, NMod(a.mag, m.mag))

\* x & 1: in two's complement the low bit of x is the parity of |x|.
ZLowBit(z) == IF NIsOdd(z.mag) THEN 1 ELSE 0

\* x >> 1, the arithmetic shift: floor(x / 2).
ZShr1(z) ==
    IF z.neg THEN ZMk(TRUE, NHalf(NAdd(z.mag, <<1>>))) ELSE ZMk(FALSE, NHalf(z.mag))

Two63 == NPow2(63)
Two64 == NPow2(64)
Two127 == NPow2(127)
Two128 == NPow2(128)

\* The value of z in a signed two's complement type of modulus full = 2^w.
ZWrap(z, full, half) ==
    LET u == NMod(z.mag, full)
        v == IF z.neg /\ Len(u) > 0 THEN NSub(full, u) ELSE u
    IN  IF NCmp(v, half) >= 0 THEN ZMk(TRUE, NSub(full, v)) ELSE ZMk(FALSE, v)

Int64(z) == ZWrap(z, Two64, Two63)
Int128(z) == ZWrap(z, Two128, Two127)

IsInt64(z) == Int64(z) = z

(***************************************************************************)
(* mulmod: the product in __int128, the remainder converted to long long.  *)
(***************************************************************************)
\* Mutant: the product is computed in long long.
mulmod_res_longlong(a, b) == Int64(ZMul(a, b))

\* Line 73.
mulmod_res(a, b) == Int128(ZMul(Int128(a), Int128(b)))

\* Line 74.
mulmod(a, b, mod) == Int64(ZRem(mulmod_res(a, b), Int128(mod)))


(***************************************************************************)
(* Program constants and the machine's state.                              *)
(***************************************************************************)
Z0 == Z(0)
Z1 == Z(1)
Z2 == Z(2)

test_bases == <<2, 3, 5, 7, 11, 13, 17>>

VARIABLES
    entry,      \* the function called from outside
    pc,         \* the statement control is at
    fIsPrime,   \* isPrime's n, d, s and i, the index of the base of the loop
    verdict,    \* isPrime's return value: "none", "true", "false"
    fCheck,     \* check_composite's a, d, n, s, x, r
    cret,       \* check_composite's return value: "none", "true", "false"
    fModexp,    \* modexp's a, b, mod, result
    fMulmod,    \* mulmod's a, b, mod and ret, its return value
    args0,      \* history: the arguments modexp was called with
    iters,      \* history: iterations of modexp's loop so far
    mulCalls,   \* history: the mulmod calls of the last step, as <<a, b, mod>>
    invoked,    \* history: the bases check_composite was invoked for by isPrime
    outcomes,   \* history: what these invocations returned
    squarings   \* history: squarings in check_composite's loop so far

vars == <<entry, pc, fIsPrime, verdict, fCheck, cret, fModexp, fMulmod,
          args0, iters, mulCalls, invoked, outcomes, squarings>>

hist == <<args0, iters, mulCalls, invoked, outcomes, squarings>>

NoIsPrime == [n |-> Z0, d |-> Z0, s |-> 0, i |-> 0]
NoCheck == [a |-> Z0, d |-> Z0, n |-> Z0, s |-> 0, x |-> Z0, r |-> 0]
NoModexp == [a |-> Z0, b |-> Z0, mod |-> Z0, result |-> Z0]
NoMulmod == [a |-> Z0, b |-> Z0, mod |-> Z0, ret |-> Z0]

InitCommon ==
    /\ verdict = "none"
    /\ cret = "none"
    /\ iters = 0
    /\ mulCalls = << >>
    /\ invoked = << >>
    /\ outcomes = << >>
    /\ squarings = 0

(***************************************************************************)
(* isPrime                                                                 *)
(***************************************************************************)
\* Lines 113-118: the trivial cases, then d = n - 1, s = 0.
IsPrimeEntry ==
    /\ pc = "isPrime"
    /\ IF ZLt(fIsPrime.n, Z2)
       THEN verdict' = "false" /\ pc' = "done" /\ UNCHANGED fIsPrime
       ELSE IF ZRem(fIsPrime.n, Z2) = Z0
       THEN /\ verdict' = (IF fIsPrime.n = Z2 THEN "true" ELSE "false")
            /\ pc' = "done"
            /\ UNCHANGED fIsPrime
       ELSE /\ fIsPrime' = [fIsPrime EXCEPT !.d = Int64(ZSub(fIsPrime.n, Z1)), !.s = 0]
            /\ pc' = "halve"
            /\ UNCHANGED verdict
    /\ UNCHANGED <<entry, fCheck, cret, fModexp, fMulmod, hist>>

\* Mutant: the shifts are not counted.
HalveStep_NoCount(f) == [f EXCEPT !.d = ZShr1(f.d)]

\* Lines 120-121: d >>= 1; s++.
HalveStep(f) == [f EXCEPT !.d = ZShr1(f.d), !.s = f.s + 1]

\* Lines 119-122: one iteration of the halving loop.
Halve ==
    /\ pc = "halve"
    /\ ZLowBit(fIsPrime.d) = 0
    /\ fIsPrime' = HalveStep(fIsPrime)
    /\ UNCHANGED <<entry, pc, verdict, fCheck, cret, fModexp, fMulmod, hist>>

\* Line 119 false: the loop ends, the loop over test_bases starts.
HalveExit ==
    /\ pc = "halve"
    /\ ZLowBit(fIsPrime.d) # 0
    /\ pc' = "bases"
    /\ fIsPrime' = [fIsPrime EXCEPT !.i = 1]
    /\ UNCHANGED <<entry, verdict, fCheck, cret, fModexp, fMulmod, hist>>

\* Mutant: a base equal to n is not skipped.
SkipBase_Greater(a, n) == ZLt(n, a)

\* Line 128: a >= n.
SkipBase(a, n) == ~ZLt(a, n)

\* Line 128: a base a >= n is skipped.
BaseSkip ==
    /\ pc = "bases"
    /\ fIsPrime.i <= Len(test_bases)
    /\ SkipBase(Z(test_bases[fIsPrime.i]), fIsPrime.n)
    /\ fIsPrime' = [fIsPrime EXCEPT !.i = @ + 1]
    /\ UNCHANGED <<entry, pc, verdict, fCheck, cret, fModexp, fMulmod, hist>>

\* Line 129: check_composite(a, d, n, s) is called.
BaseCall ==
    /\ pc = "bases"
    /\ fIsPrime.i <= Len(test_bases)
    /\ ~SkipBase(Z(test_bases[fIsPrime.i]), fIsPrime.n)
    /\ fCheck' = [a |-> Z(test_bases[fIsPrime.i]), d |-> fIsPrime.d,
                  n |-> fIsPrime.n, s |-> fIsPrime.s, x |-> Z0, r |-> 0]
    /\ invoked' = Append(invoked, test_bases[fIsPrime.i])
    /\ squarings' = 0
    /\ cret' = "none"
    /\ pc' = "check_composite"
    /\ UNCHANGED <<entry, fIsPrime, verdict, fModexp, fMulmod,
                   args0, iters, mulCalls, outcomes>>

\* Line 133: every base is done.
BasesExit ==
    /\ pc = "bases"
    /\ fIsPrime.i > Len(test_bases)
    /\ verdict' = "true"
    /\ pc' = "done"
    /\ UNCHANGED <<entry, fIsPrime, fCheck, cret, fModexp, fMulmod, hist>>

(***************************************************************************)
(* check_composite                                                         *)
(***************************************************************************)
\* Mutant: isPrime ignores what check_composite returns.
CheckReturn_Ignored(out) ==
    /\ cret' = out
    /\ outcomes' = Append(outcomes, out)
    /\ IF entry = "check_composite"
       THEN pc' = "done" /\ UNCHANGED <<fIsPrime, verdict>>
       ELSE /\ pc' = "bases"
            /\ fIsPrime' = [fIsPrime EXCEPT !.i = @ + 1]
            /\ UNCHANGED verdict

\* check_composite returns out; called by isPrime (lines 129-130) a true
\* makes isPrime return false, a false moves on to the next base.
CheckReturn(out) ==
    /\ cret' = out
    /\ outcomes' = Append(outcomes, out)
    /\ IF entry = "check_composite"
       THEN pc' = "done" /\ UNCHANGED <<fIsPrime, verdict>>
       ELSE IF out = "true"
       THEN verdict' = "false" /\ pc' = "done" /\ UNCHANGED fIsPrime
       ELSE /\ pc' = "bases"
            /\ fIsPrime' = [fIsPrime EXCEPT !.i = @ + 1]
            /\ UNCHANGED verdict

\* Line 91: modexp(a, d, n) is called.
CheckEntry ==
    /\ pc = "check_composite"
    /\ fModexp' = [a |-> fCheck.a, b |-> fCheck.d, mod |-> fCheck.n, result |-> Z1]
    /\ args0' = [a |-> fCheck.a, b |-> fCheck.d, mod |-> fCheck.n]
    /\ iters' = 0
    /\ mulCalls' = << >>
    /\ pc' = "modexp"
    /\ UNCHANGED <<entry, fIsPrime, verdict, fCheck, cret, fMulmod,
                   invoked, outcomes, squarings>>

\* Mutant: only x == 1 passes.
PassesFirstCheck_OnlyOne(x, n) == x = Z1

\* Line 94: x == 1 || x == n - 1.
PassesFirstCheck(x, n) == x = Z1 \/ x = Int64(ZSub(n, Z1))

\* Lines 94-95, and r = 1 of line 98.
FirstCheck ==
    /\ pc = "first_check"
    /\ mulCalls' = << >>
    /\ IF PassesFirstCheck(fCheck.x, fCheck.n)
       THEN CheckReturn("false") /\ UNCHANGED fCheck
       ELSE /\ fCheck' = [fCheck EXCEPT !.r = 1]
            /\ pc' = "square"
            /\ UNCHANGED <<fIsPrime, verdict, cret, outcomes>>
    /\ UNCHANGED <<entry, fModexp, fMulmod, args0, iters, invoked, squarings>>

\* Mutant: the loop runs once more.
SquareLoopCond_OneMore(r, s) == r <= s

\* Line 98: r < s.
SquareLoopCond(r, s) == r < s

\* Mutant: x == n - 1 is not looked for in the loop.
SquareOutcome_NoMinusOne(x, n) == IF x = Z1 THEN "true" ELSE "continue"

\* Lines 101-105: what the loop does with the square x.
SquareOutcome(x, n) ==
    IF x = Int64(ZSub(n, Z1)) THEN "false"
    ELSE IF x = Z1 THEN "true"
    ELSE "continue"

\* Lines 98-106: one iteration of the squaring loop.
Square ==
    /\ pc = "square"
    /\ SquareLoopCond(fCheck.r, fCheck.s)
    /\ LET x1 == mulmod(fCheck.x, fCheck.x, fCheck.n)
           out == SquareOutcome(x1, fCheck.n)
       IN  /\ mulCalls' = << <<fCheck.x, fCheck.x, fCheck.n>> >>
           /\ squarings' = squarings + 1
           /\ IF out = "continue"
              THEN /\ fCheck' = [fCheck EXCEPT !.x = x1, !.r = @ + 1]
                   /\ UNCHANGED <<pc, fIsPrime, verdict, cret, outcomes>>
              ELSE CheckReturn(out) /\ fCheck' = [fCheck EXCEPT !.x = x1]
    /\ UNCHANGED <<entry, fModexp, fMulmod, args0, iters, invoked>>

\* Line 108: the loop ended without x reaching n - 1.
SquareExit ==
    /\ pc = "square"
    /\ ~SquareLoopCond(fCheck.r, fCheck.s)
    /\ mulCalls' = << >>
    /\ CheckReturn("true")
    /\ UNCHANGED <<entry, fCheck, fModexp, fMulmod, args0, iters, invoked, squarings>>

(***************************************************************************)
(* modexp                                                                  *)
(***************************************************************************)
\* Mutant: a is squared before result is multiplied by it.
modexp_iter_SquareFirst(f) ==
    LET a1 == mulmod(f.a, f.a, f.mod)
    IN  [f EXCEPT
           !.result = IF ZLowBit(f.b) # 0 THEN mulmod(f.result, a1, f.mod) ELSE @,
           !.a = a1,
           !.b = ZShr1(@)]

\* Lines 81-84: the body of the loop.
modexp_iter(f) ==
    [f EXCEPT
       !.result = IF ZLowBit(f.b) # 0 THEN mulmod(f.result, f.a, f.mod) ELSE @,
       !.a = mulmod(f.a, f.a, f.mod),
       !.b = ZShr1(@)]

\* Lines 80-85: one iteration of the loop.
ModexpStep ==
    /\ pc = "modexp"
    /\ ZLt(Z0, fModexp.b)
    /\ LET odd == ZLowBit(fModexp.b) # 0
       IN  /\ fModexp' = modexp_iter(fModexp)
           /\ mulCalls' =
                 (IF odd THEN << <<fModexp.result, fModexp.a, fModexp.mod>> >>
                         ELSE << >>)
                 \o << <<fModexp.a, fModexp.a, fModexp.mod>> >>
    /\ iters' = iters + 1
    /\ UNCHANGED <<entry, pc, fIsPrime, verdict, fCheck, cret, fMulmod,
                   args0, invoked, outcomes, squarings>>

\* Line 86: result is returned, to line 91 when check_composite called.
ModexpReturn ==
    /\ pc = "modexp"
    /\ ~ZLt(Z0, fModexp.b)
    /\ mulCalls' = << >>
    /\ IF entry = "modexp"
       THEN pc' = "done" /\ UNCHANGED fCheck
       ELSE pc' = "first_check" /\ fCheck' = [fCheck EXCEPT !.x = fModexp.result]
    /\ UNCHANGED <<entry, fIsPrime, verdict, cret, fModexp, fMulmod,
                   args0, iters, invoked, outcomes, squarings>>

(***************************************************************************)
(* mulmod called on its own                                                *)
(***************************************************************************)
\* Lines 72-75.
MulmodCall ==
    /\ pc = "mulmod"
    /\ fMulmod' = [fMulmod EXCEPT !.ret = mulmod(fMulmod.a, fMulmod.b, fMulmod.mod)]
    /\ mulCalls' = << <<fMulmod.a, fMulmod.b, fMulmod.mod>> >>
    /\ pc' = "done"
    /\ UNCHANGED <<entry, fIsPrime, verdict, fCheck, cret, fModexp,
                   args0, iters, invoked, outcomes, squarings>>


(***************************************************************************)
(* Inputs: bounds, initial states and specifications.                      *)
(***************************************************************************)
MaxN == 1000         \* isPrime is run on every n in -NegN .. MaxN
NegN == 4
MaxCheckN == 61      \* check_composite is run on every odd n in 3 .. MaxCheckN
MaxA == 5            \* modexp is run on a in 0 .. MaxA,
MaxE == 12           \*   b in 0 .. MaxE
MaxM == 7            \*   and mod in 1 .. MaxM, and on a few wide values
MaxMulSmall == 4     \* mulmod is run on 0 .. MaxMulSmall and a few wide values
WideSmall == 30      \* the small candidates run beside the wide ones

\* Big-endian groups of four decimal digits, as a number is written.
RECURSIVE Rev(_)
Rev(q) == IF Len(q) = 0 THEN q ELSE Append(Rev(Tail(q)), Head(q))

Dec(groups) == ZMk(FALSE, NNorm(Rev(groups)))

LLongMax == ZMk(FALSE, NSub(Two63, <<1>>))

\* The composites and primes named for isPrime, and 2047, the least strong
\* pseudoprime to base 2.
Named == {17, 341, 561, 645, 1105, 2047, 2465, 7919, 41041}

Candidates == {Z(k) : k \in (-NegN .. MaxN) \cup Named}

\* 341550071728321 = 10670053 * 32010157 and
\* 3825123056546413051 = 149491 * 747451 * 34233211.
WideCandidates ==
    {Z(k) : k \in 0 .. WideSmall} \cup
    { Dec(<<10, 0, 7>>),                        \* 1000000007, prime
      ZMk(FALSE, NSub(NPow2(61), <<1>>)),       \* 2^61 - 1, prime
      ZMk(FALSE, NSub(Two63, <<25>>)),          \* 2^63 - 25, prime
      LLongMax,                                 \* 2^63 - 1 = 7^2 * 73 * ...
      Dec(<<341, 5500, 7172, 8321>>),
      Dec(<<382, 5123, 565, 4641, 3051>>) }

CheckInputs ==
    {t \in (2 .. MaxCheckN) \X (1 .. MaxCheckN) \X (1 .. 6) :
        /\ t[2] % 2 = 1
        /\ t[2] * 2^t[3] + 1 <= MaxCheckN
        /\ t[1] < t[2] * 2^t[3] + 1}

PowBases == {Z(k) : k \in 0 .. MaxA} \cup {LLongMax, Dec(<<10, 0, 8>>)}
PowMods == {Z(k) : k \in 1 .. MaxM} \cup {LLongMax, Dec(<<10, 0, 7>>)}

MulValues ==
    {Z(k) : k \in 0 .. MaxMulSmall} \cup
    { ZMk(FALSE, NPow2(31)), ZMk(FALSE, NPow2(32)), ZMk(FALSE, NPow2(62)),
      ZMk(FALSE, NSub(Two63, <<2>>)), LLongMax }

Init ==
    /\ entry = "isPrime"
    /\ pc = "isPrime"
    /\ fIsPrime \in {[NoIsPrime EXCEPT !.n = c] : c \in Candidates}
    /\ fCheck = NoCheck /\ fModexp = NoModexp /\ fMulmod = NoMulmod
    /\ args0 = [a |-> Z0, b |-> Z0, mod |-> Z0]
    /\ InitCommon

InitWide ==
    /\ entry = "isPrime"
    /\ pc = "isPrime"
    /\ fIsPrime \in {[NoIsPrime EXCEPT !.n = c] : c \in WideCandidates}
    /\ fCheck = NoCheck /\ fModexp = NoModexp /\ fMulmod = NoMulmod
    /\ args0 = [a |-> Z0, b |-> Z0, mod |-> Z0]
    /\ InitCommon

InitCheck ==
    /\ entry = "check_composite"
    /\ pc = "check_composite"
    /\ fCheck \in {[a |-> Z(t[1]), d |-> Z(t[2]), n |-> Z(t[2] * 2^t[3] + 1),
                    s |-> t[3], x |-> Z0, r |-> 0] : t \in CheckInputs}
    /\ fIsPrime = NoIsPrime /\ fModexp = NoModexp /\ fMulmod = NoMulmod
    /\ args0 = [a |-> Z0, b |-> Z0, mod |-> Z0]
    /\ InitCommon

InitPow ==
    /\ entry = "modexp"
    /\ pc = "modexp"
    /\ \E a \in PowBases, e \in 0 .. MaxE, m \in PowMods :
          /\ fModexp = [a |-> a, b |-> Z(e), mod |-> m, result |-> Z1]
          /\ args0 = [a |-> a, b |-> Z(e), mod |-> m]
    /\ fIsPrime = NoIsPrime /\ fCheck = NoCheck /\ fMulmod = NoMulmod
    /\ InitCommon

InitMul ==
    /\ entry = "mulmod"
    /\ pc = "mulmod"
    /\ \E a \in MulValues, b \in MulValues, m \in MulValues :
          /\ ZLt(a, m) /\ ZLt(b, m)
          /\ fMulmod = [a |-> a, b |-> b, mod |-> m, ret |-> Z0]
    /\ fIsPrime = NoIsPrime /\ fCheck = NoCheck /\ fModexp = NoModexp
    /\ args0 = [a |-> Z0, b |-> Z0, mod |-> Z0]
    /\ InitCommon

Next ==
    \/ IsPrimeEntry \/ Halve \/ HalveExit \/ BaseSkip \/ BaseCall \/ BasesExit
    \/ CheckEntry \/ FirstCheck \/ Square \/ SquareExit
    \/ ModexpStep \/ ModexpReturn

NextCheck ==
    \/ CheckEntry \/ FirstCheck \/ Square \/ SquareExit
    \/ ModexpStep \/ ModexpReturn

NextPow == ModexpStep \/ ModexpReturn

NextMul == MulmodCall

Spec == Init /\ [][Next]_vars
SpecWide == InitWide /\ [][Next]_vars
SpecCheck == InitCheck /\ [][NextCheck]_vars
SpecPow == InitPow /\ [][NextPow]_vars
SpecMul == InitMul /\ [][NextMul]_vars

\* The program is sequential and runs until it returns: the halving loop is
\* not left standing at its test.
FairSpec == Init /\ [][Next]_vars /\ WF_vars(Halve) /\ WF_vars(HalveExit)


(***************************************************************************)
(* References the program is compared with.                                *)
(***************************************************************************)
\* Primality by trial division.
IsPrimeRef(k) == k >= 2 /\ \A j \in 2 .. (k - 1) : j > k \div j \/ k % j # 0

\* a^e mod m by repeated multiplication, four factors a step.
RECURSIVE PowRef(_, _, _)
PowRef(a, e, m) ==
    IF e = 0 THEN 1 % m
    ELSE IF e < 4 THEN (a * PowRef(a, e - 1, m)) % m
    ELSE (((((((a * a) % m) * a) % m) * a) % m) * PowRef(a, e - 4, m)) % m

\* The same on wide numbers, one factor a step.
RECURSIVE NPowRef(_, _, _)
NPowRef(a, e, m) ==
    IF e = 0 THEN NMod(<<1>>, m) ELSE NMod(NMul(a, NPowRef(a, e - 1, m)), m)

\* a * b mod m by Horner's rule over the limbs of b, reduced at every limb.
RECURSIVE NMulModRef(_, _, _)
NMulModRef(a, b, m) ==
    IF Len(b) = 0 THEN << >>
    ELSE NMod(NAdd(NMulSmall(a, b[1]), NShift(NMulModRef(a, Tail(b), m))), m)

\* The divisors tried on the wide candidates: the small ones, and a prime
\* factor of each wide composite.
WideDivisors ==
    {Z(k) : k \in 2 .. WideSmall} \cup {Z(10670053), Z(149491)}

HasDivisor(n) == \E f \in WideDivisors : ZLt(f, n) /\ ZRem(n, f) = Z0

InRange(z, m) == ZLe(Z0, z) /\ ZLt(z, m)

OddCandidate(n) == ZLt(Z2, n) /\ ZLowBit(n) = 1

Applicable(n) == SelectSeq(test_bases, LAMBDA b : ZLt(Z(b), n))

InCheck == pc \in {"check_composite", "modexp", "first_check", "square"}

\* n - 1 = d * 2^s with d odd and s >= 1.
Decomposed(n, d, s) ==
    /\ s >= 1
    /\ ZLowBit(d) = 1
    /\ ZSub(n, Z1) = ZMul(d, ZMk(FALSE, NPow2(s)))

(***************************************************************************)
(* C1: on every n of the range (negative, 0, 1, 2, even, prime, composite, *)
(* with 341, 561, 645, 1105, 2465, 41041, 17 and 7919) isPrime returns     *)
(* true exactly when trial division finds n prime.                         *)
(***************************************************************************)
C1_IsPrimeMatchesTrialDivision ==
    pc = "done" =>
        /\ verdict \in {"true", "false"}
        /\ (verdict = "true") = IsPrimeRef(ZToInt(fIsPrime.n))
        /\ ZLt(fIsPrime.n, Z2) => verdict = "false"

C1_Witness ==
    /\ pc = "done"
    /\ fIsPrime.n = Z(41041)
    /\ verdict = "false"
    /\ Len(outcomes) >= 1

(***************************************************************************)
(* C2: with the bases 2, 3, 5, 7, 11, 13, 17 isPrime classifies every      *)
(* n <= 2^63 - 1 rightly: it returns true for no n with a proper divisor   *)
(* and false for no prime.                                                 *)
(***************************************************************************)
C2_DeterministicOn64Bit ==
    pc = "done" =>
        (verdict = "true") = (ZLe(Z2, fIsPrime.n) /\ ~HasDivisor(fIsPrime.n))

(***************************************************************************)
(* C3: for 0 <= a, b < m <= 2^63 - 1, mulmod(a, b, m) is (a * b) mod m of  *)
(* wide arithmetic and lies in [0, m); the product is not wrapped by the   *)
(* 128 bit intermediate and the remainder is not truncated by long long.   *)
(***************************************************************************)
C3_MulmodExact ==
    pc = "done" =>
        LET a == fMulmod.a
            b == fMulmod.b
            m == fMulmod.mod
        IN  /\ fMulmod.ret = ZMk(FALSE, NMulModRef(a.mag, b.mag, m.mag))
            /\ InRange(fMulmod.ret, m)
            /\ NCmp(NMul(a.mag, b.mag), Two127) < 0
            /\ mulmod_res(a, b) = ZMk(FALSE, NMul(a.mag, b.mag))
            /\ IsInt64(ZRem(mulmod_res(a, b), Int128(m)))

C3_Witness ==
    /\ pc = "done"
    /\ fMulmod.a = ZMk(FALSE, NSub(Two63, <<2>>))
    /\ fMulmod.b = ZMk(FALSE, NSub(Two63, <<2>>))
    /\ fMulmod.mod = LLongMax
    /\ fMulmod.ret = Z1

(***************************************************************************)
(* C4: for a >= 0, e >= 0 and m >= 1, m = 1 and e = 0 included, modexp     *)
(* returns r with 0 <= r < m.                                              *)
(***************************************************************************)
C4_ModexpInRange ==
    (entry = "modexp" /\ pc = "done") => InRange(fModexp.result, fModexp.mod)

(***************************************************************************)
(* C5: for a >= 0, e >= 0 and m > 1, modexp returns a^e mod m; after k     *)
(* iterations result is a^(the low k bits of e) mod m and b is e without   *)
(* them; modexp(a, 0, m) = 1 and modexp(a, 1, m) = a mod m, also for       *)
(* a >= m.                                                                 *)
(***************************************************************************)
C5_ModexpIsPower ==
    (entry = "modexp" /\ ZLt(Z1, args0.mod)) =>
        LET e == ZToInt(args0.b)
            m == args0.mod
            low == e % (2^iters)
        IN  /\ fModexp.mod = m
            /\ fModexp.b = Z(e \div (2^iters))
            /\ fModexp.result = ZMk(FALSE, NPowRef(args0.a.mag, low, m.mag))
            /\ pc = "done" =>
                  /\ fModexp.result = ZMk(FALSE, NPowRef(args0.a.mag, e, m.mag))
                  /\ e = 0 => fModexp.result = Z1
                  /\ e = 1 => fModexp.result = ZRem(args0.a, m)

C5_Witness ==
    /\ entry = "modexp"
    /\ pc = "done"
    /\ args0 = [a |-> LLongMax, b |-> Z(11), mod |-> Dec(<<10, 0, 7>>)]
    /\ iters = 4

(***************************************************************************)
(* C6: for odd n >= 3 with n - 1 = d * 2^s and a base 2 <= a < n, when     *)
(* check_composite returns true n is composite; for a prime n it returns   *)
(* false.                                                                  *)
(***************************************************************************)
C6_WitnessSound ==
    (entry = "check_composite" /\ pc = "done") =>
        /\ cret \in {"true", "false"}
        /\ cret = "true" => ~IsPrimeRef(ZToInt(fCheck.n))
        /\ IsPrimeRef(ZToInt(fCheck.n)) => cret = "false"

C6_Witness ==
    /\ entry = "check_composite"
    /\ pc = "done"
    /\ cret = "true"
    /\ squarings >= 1
    /\ fCheck.n = Z(25)

(***************************************************************************)
(* C7: isPrime invokes check_composite for the bases below n in the order  *)
(* of test_bases and for no base a >= n; the first true makes it return    *)
(* false with no later base invoked; it returns true only when every base  *)
(* below n was invoked and returned false.                                 *)
(***************************************************************************)
C7_BaseOrderShortCircuit ==
    LET app == Applicable(fIsPrime.n)
        k == Len(outcomes)
    IN  /\ Len(invoked) <= Len(app)
        /\ invoked = SubSeq(app, 1, Len(invoked))
        /\ k \in {Len(invoked) - 1, Len(invoked)}
        /\ (k < Len(invoked)) = InCheck
        /\ \A j \in 1 .. (k - 1) : outcomes[j] = "false"
        /\ (k > 0 /\ outcomes[k] = "true") =>
              pc = "done" /\ verdict = "false" /\ Len(invoked) = k
        /\ (OddCandidate(fIsPrime.n) /\ verdict = "true") =>
              /\ invoked = app
              /\ k = Len(app)
              /\ \A j \in 1 .. k : outcomes[j] = "false"
        /\ (OddCandidate(fIsPrime.n) /\ verdict = "false") =>
              k > 0 /\ outcomes[k] = "true"

C7_Witness ==
    /\ pc = "done"
    /\ verdict = "false"
    /\ invoked = <<2, 3>>
    /\ outcomes = <<"false", "true">>

(***************************************************************************)
(* C8: check_composite returns false exactly when a^d mod n is 1 or n - 1  *)
(* or a^(d * 2^r) mod n is n - 1 for some r in 1 .. s-1; it squares at     *)
(* most s - 1 times and returns at the first square that is n - 1 or 1.    *)
(***************************************************************************)
C8_CheckCompositeCharacterised ==
    (entry = "check_composite" /\ pc = "done") =>
        LET a == ZToInt(fCheck.a)
            d == ZToInt(fCheck.d)
            n == ZToInt(fCheck.n)
            s == fCheck.s
            first == PowRef(a, d, n) \in {1, n - 1}
            hits == {r \in 1 .. (s - 1) : PowRef(a, d * 2^r, n) \in {1, n - 1}}
        IN  /\ (cret = "false") =
                  (first \/ \E r \in 1 .. (s - 1) : PowRef(a, d * 2^r, n) = n - 1)
            /\ cret = "true" <=> cret # "false"
            /\ squarings <= s - 1
            /\ first => squarings = 0
            /\ (~first /\ hits = {}) => squarings = s - 1
            /\ (~first /\ hits # {}) =>
                  /\ squarings \in hits
                  /\ \A r \in hits : squarings <= r

C8_Witness ==
    /\ entry = "check_composite"
    /\ pc = "done"
    /\ cret = "false"
    /\ squarings = 2
    /\ fCheck.s = 4

(***************************************************************************)
(* C9: for odd n >= 3 the halving loop ends, and at every invocation of    *)
(* check_composite(a, d, n, s) n - 1 = d * 2^s with d odd and s >= 1,      *)
(* 2 <= a < n, and n, d and s are those isPrime computed, which do not     *)
(* change between the bases.                                               *)
(***************************************************************************)
C9_ArgsInv ==
    /\ InCheck =>
          /\ fCheck.n = fIsPrime.n /\ fCheck.d = fIsPrime.d /\ fCheck.s = fIsPrime.s
          /\ Decomposed(fCheck.n, fCheck.d, fCheck.s)
          /\ ZLe(Z2, fCheck.a) /\ ZLt(fCheck.a, fCheck.n)
          /\ OddCandidate(fCheck.n)
    /\ pc = "bases" => Decomposed(fIsPrime.n, fIsPrime.d, fIsPrime.s)

C9_ArgsFrozen ==
    /\ fIsPrime'.n = fIsPrime.n
    /\ pc \in {"bases", "check_composite", "modexp", "first_check", "square"} =>
          fIsPrime'.d = fIsPrime.d /\ fIsPrime'.s = fIsPrime.s
    /\ (InCheck /\ pc' \in {"check_composite", "modexp", "first_check", "square"}) =>
          fCheck'.a = fCheck.a /\ fCheck'.d = fCheck.d
          /\ fCheck'.n = fCheck.n /\ fCheck'.s = fCheck.s

\* C9: the arguments of check_composite are the decomposition of n - 1 at
\* every invocation, no step changes them, and the halving loop is left.
C9_DecompositionHolds ==
    /\ []C9_ArgsInv
    /\ [][C9_ArgsFrozen]_vars
    /\ (pc = "halve") ~> (pc = "bases")

C9_Witness ==
    /\ pc = "check_composite"
    /\ Len(invoked) = 3
    /\ fCheck.s = 4
    /\ fCheck.d = Z(1)

(***************************************************************************)
(* C10: during isPrime(n), 0 <= n <= 2^63 - 1, every mulmod call has the   *)
(* modulus n >= 3 and both operands in [0, n), and result, a and x stay in *)
(* [0, n).                                                                 *)
(***************************************************************************)
C10_MulmodContractKept ==
    LET n == fIsPrime.n
    IN  /\ \A j \in 1 .. Len(mulCalls) :
              /\ mulCalls[j][3] = n
              /\ ZLe(Z(3), n)
              /\ InRange(mulCalls[j][1], n)
              /\ InRange(mulCalls[j][2], n)
        /\ pc = "modexp" =>
              /\ fModexp.mod = n
              /\ InRange(fModexp.result, n)
              /\ InRange(fModexp.a, n)
        /\ pc \in {"first_check", "square"} => InRange(fCheck.x, n)

C10_Witness ==
    /\ fIsPrime.n = LLongMax
    /\ pc = "modexp"
    /\ Len(mulCalls) = 2
    /\ iters >= 60

=============================================================================
